---- MODULE Spec2Model ----
(***************************************************************************)
(* A model of pympress/util.py: the resource resolver, the screensaver     *)
(* controller (set_screensaver) and the debounced file watcher             *)
(* (FileWatcher).  Strings are sequences of atoms: a path is a sequence    *)
(* of name atoms and "/" separators.                                       *)
(***************************************************************************)
EXTENDS Integers, Sequences, FiniteSets, TLC

VARIABLES
    \* ---- FileWatcher: program state
    observer,    \* FileWatcher.observer: its thread, handlers, emitters, watches
    handler,     \* FileWatcher.monitor.on_modified: the bound path, callback, args
    queue,       \* the observer's event queue
    timeout,     \* FileWatcher.timeout
    sources,     \* pending GLib timeout sources
    nextId,      \* next GLib source id
    pcObs,       \* position of the observer thread
    obsLoc,      \* locals of the observer thread inside enqueue
    pcUI,        \* position of the UI thread
    uiLoc,       \* locals of the UI thread inside call / stop_daemon
    \* ---- FileWatcher: history
    lastOp,      \* the last UI operation that returned
    nOps,        \* number of UI operations that have returned
    calls,       \* the callback invocations, in order
    nMods,       \* number of file modifications so far
    delivered,   \* number of enqueue calls started
    sinceLast,   \* ms since the last enqueue call started (capped)
    gapOK,       \* every two consecutive enqueue calls were < DELAY ms apart
    staleRemove, \* GLib.Source.remove was called on an id that is not pending
    modsNow,     \* the path watched before the last UI operation was modified since it returned
    timerOps,    \* the accesses to the timer made so far, each with its thread
    rejected,    \* the events the handler has filtered out, each with the watched path
    \* ---- set_screensaver
    platform, dpms_was_enabled, os, sslog,
    \* ---- resource resolver
    resIn, resOut

watchVars == <<observer, handler, queue, timeout, sources, nextId,
               pcObs, obsLoc, pcUI, uiLoc>>
watchHist == <<lastOp, nOps, calls, nMods, delivered, sinceLast, gapOK, staleRemove, modsNow,
               timerOps, rejected>>
saverVars == <<platform, dpms_was_enabled, os, sslog>>
resVars == <<resIn, resOut>>
vars == <<watchVars, watchHist, saverVars, resVars>>

(***************************************************************************)
(* Bounds of the model.                                                    *)
(***************************************************************************)
\* the UI operations and file modifications of a run, together
MaxInputs == 5
MaxCalls == 3

(***************************************************************************)
(* Strings and paths (posixpath).                                          *)
(***************************************************************************)
Sep == "/"

Max(a, b) == IF a >= b THEN a ELSE b
Min(a, b) == IF a <= b THEN a ELSE b

\* s.endswith(t)
EndsWith(s, t) ==
    /\ Len(t) <= Len(s)
    /\ SubSeq(s, Len(s) - Len(t) + 1, Len(s)) = t

\* s.startswith(t)
StartsWith(s, t) ==
    /\ Len(t) <= Len(s)
    /\ SubSeq(s, 1, Len(t)) = t

\* s.rfind('/') + 1: the position of the last separator, 0 when there is none
RFindSep(s) ==
    LET idx == {i \in 1..Len(s) : s[i] = Sep}
    IN IF idx = {} THEN 0 ELSE CHOOSE i \in idx : \A j \in idx : j <= i

\* s.rstrip('/')
RECURSIVE RStripSep(_)
RStripSep(s) ==
    IF s # <<>> /\ s[Len(s)] = Sep THEN RStripSep(SubSeq(s, 1, Len(s) - 1)) ELSE s

\* os.path.dirname(p)
dirname(p) ==
    LET head == SubSeq(p, 1, RFindSep(p))
    IN IF head # <<>> /\ \E i \in 1..Len(head) : head[i] # Sep
       THEN RStripSep(head) ELSE head

\* os.path.join(a, b) for one more component
join2(a, b) ==
    IF StartsWith(b, <<Sep>>) THEN b
    ELSE IF a = <<>> \/ EndsWith(a, <<Sep>>) THEN a \o b
    ELSE a \o <<Sep>> \o b

\* os.path.join(a, *parts)
RECURSIVE pathjoin(_, _)
pathjoin(a, parts) ==
    IF parts = <<>> THEN a ELSE pathjoin(join2(a, Head(parts)), Tail(parts))

\* '/'.join(parts)
RECURSIVE slashjoin(_)
slashjoin(parts) ==
    IF parts = <<>> THEN <<>>
    ELSE IF Len(parts) = 1 THEN Head(parts)
    ELSE Head(parts) \o <<Sep>> \o slashjoin(Tail(parts))

\* s.split('/')
RECURSIVE slashsplit(_)
slashsplit(s) ==
    LET idx == {i \in 1..Len(s) : s[i] = Sep}
    IN IF idx = {} THEN <<s>>
       ELSE LET i == CHOOSE k \in idx : \A j \in idx : k <= j
            IN <<SubSeq(s, 1, i - 1)>> \o slashsplit(SubSeq(s, i + 1, Len(s)))

(***************************************************************************)
(* FileWatcher.                                                            *)
(***************************************************************************)
\* GLib.timeout_add(200, ...)
DELAY == 200
\* the step of the clock, in ms: a timer expires one step after it is armed
TickMs == DELAY

P1 == <<Sep, "d1", Sep, "a">>
P2 == <<Sep, "d1", Sep, "b">>
P3 == <<Sep, "d0", Sep, "c">>
Paths == {P1, P2, P3}
\* the directories that exist and can be watched
ExistingDirs == {<<Sep, "d1">>}
\* the calls of watch_file: a path with the callback and arguments bound to it
WatchInputs == {<<P1, "cb1", "a1">>, <<P2, "cb2", "a2">>, <<P3, "cb1", "a1">>}
\* what a modification event can name: a file of an existing directory, or the
\* directory itself
EventSources == {p \in Paths : dirname(p) \in ExistingDirs} \cup ExistingDirs

NoHandler == [set |-> FALSE, path |-> <<>>, cb |-> "none", args |-> "none"]
NoObsLoc == [cb |-> "none", args |-> "none", read |-> 0, new |-> 0,
             src |-> <<>>, gen |-> 0]
NoUiLoc == [cb |-> "none", args |-> "none", src |-> <<>>, gen |-> 0, wait |-> FALSE,
            id |-> 0]

\* the thread that runs monitor.on_modified and, inside it, enqueue: the observer
\* thread, which dispatches the events to the handlers
EnqueueThread == "observer"

\* mutant: call run by the thread that handles the event
CallThreadOfHandler == "observer"

\* the thread that runs call: the main loop, which dispatches the timeout source
CallThread == "ui"

NoOp == [op |-> "none", path |-> <<>>, cb |-> "none", args |-> "none", exc |-> "none",
         oserr |-> FALSE, wait |-> FALSE, alive |-> FALSE, watches |-> {},
         prev |-> <<>>, before |-> {}]

\* observer = Observer(): a thread not started yet, nothing scheduled
NewObserver == [thread |-> "new", handlers |-> {}, emitters |-> {}, watches |-> {}]

InitWatch ==
    /\ observer = NewObserver
    /\ handler = NoHandler
    /\ queue = <<>>
    /\ timeout = 0
    /\ sources = {}
    /\ nextId = 1
    /\ pcObs = "idle"
    /\ obsLoc = NoObsLoc
    /\ pcUI = "idle"
    /\ uiLoc = NoUiLoc
    /\ lastOp = NoOp
    /\ nOps = 0
    /\ calls = <<>>
    /\ nMods = 0
    /\ delivered = 0
    /\ sinceLast = 0
    /\ gapOK = TRUE
    /\ staleRemove = FALSE
    /\ modsNow = FALSE
    /\ timerOps = {}
    /\ rejected = {}

\* observer.is_alive()
is_alive(o) == o.thread \in {"running", "stopping", "exiting"}

\* observer.start() raises RuntimeError: a thread can be started only once
StartRaises(o) == o.thread # "new"

\* observer.start()
start(o) == [o EXCEPT !.thread = "running"]

\* mutant: stop() that unschedules but never tells the thread to end
stop_without_event(o) == [o EXCEPT !.handlers = {}, !.emitters = {}, !.watches = {}]

\* observer.stop(): the thread is told to end, and on_thread_stop unschedules all
stop(o) == [o EXCEPT !.thread = IF @ = "running" THEN "stopping" ELSE @,
                     !.handlers = {}, !.emitters = {}, !.watches = {}]

\* mutant: unschedule_all that forgets the watches but leaves the emitters running
unschedule_all_keeps_emitters(o) == [o EXCEPT !.handlers = {}, !.watches = {}]

\* observer.unschedule_all()
unschedule_all(o) == [o EXCEPT !.handlers = {}, !.emitters = {}, !.watches = {}]

\* observer.schedule(monitor, directory) raises OSError
ScheduleRaises(o, directory) == is_alive(o) /\ directory \notin ExistingDirs

\* mutant: schedule that records the watch before it starts the emitter
schedule_records_first(o, directory) ==
    IF ScheduleRaises(o, directory)
    THEN [o EXCEPT !.handlers = @ \cup {directory}, !.watches = @ \cup {directory}]
    ELSE [o EXCEPT !.handlers = @ \cup {directory},
                   !.emitters = IF is_alive(o) THEN @ \cup {directory} ELSE @,
                   !.watches = @ \cup {directory}]

\* observer.schedule(monitor, directory): the handler is registered first, then the
\* emitter is made and, on a live observer, started; the watch is recorded last
schedule(o, directory) ==
    IF ScheduleRaises(o, directory)
    THEN [o EXCEPT !.handlers = @ \cup {directory}]
    ELSE [o EXCEPT !.handlers = @ \cup {directory},
                   !.emitters = IF is_alive(o) THEN @ \cup {directory} ELSE @,
                   !.watches = @ \cup {directory}]

\* FileWatcher.start_daemon(), when it does not raise
start_daemon(o) == IF ~is_alive(o) THEN start(o) ELSE o

\* FileWatcher.start_daemon() raises
StartDaemonRaises(o) == ~is_alive(o) /\ StartRaises(o)

\* mutant: stop_watching that leaves the watch in place
stop_watching_nothing(o) == o

\* FileWatcher.stop_watching()
stop_watching(o) == unschedule_all(o)

\* the UI thread is in the main loop and the observer does not hold its lock
UiFree == pcUI = "idle" /\ pcObs = "idle" /\ nOps + nMods < MaxInputs

\* the record of a UI operation that returns: its arguments, the exception it
\* propagates, whether schedule raised OSError inside it, and the observer and the
\* watched path before and after it
OpRec(op, path, cb, args, exc, oserr, wait, o) ==
    [op |-> op, path |-> path, cb |-> cb, args |-> args, exc |-> exc,
     oserr |-> oserr, wait |-> wait, alive |-> is_alive(o), watches |-> o.watches,
     prev |-> handler.path, before |-> observer.watches]

\* the events the observer thread takes off the queue while no handler is registered,
\* between stop_watching and schedule: any prefix of the queue
DroppedDuringSwitch(o) ==
    IF o.thread = "running" THEN 0..Len(queue) ELSE {0}

\* FileWatcher.watch_file(path, callback, *args)
WatchFile(path, callback, args) ==
    /\ UiFree
    /\ IF StartDaemonRaises(observer)
       THEN /\ lastOp' = OpRec("watch_file", path, callback, args,
                                        "RuntimeError", FALSE, FALSE, observer)
            /\ nOps' = nOps + 1 /\ modsNow' = FALSE
            /\ UNCHANGED <<observer, handler, queue>>
       ELSE LET directory == dirname(path)
                o1 == stop_watching(start_daemon(observer))
                o2 == schedule(o1, directory)
            IN /\ observer' = o2
               /\ handler' = [set |-> TRUE, path |-> path, cb |-> callback,
                              args |-> args]
               /\ \E k \in DroppedDuringSwitch(o1) :
                     queue' = SubSeq(queue, k + 1, Len(queue))
               /\ lastOp' = OpRec("watch_file", path, callback, args, "none",
                                           ScheduleRaises(o1, directory), FALSE, o2)
               /\ nOps' = nOps + 1 /\ modsNow' = FALSE
    /\ UNCHANGED <<timeout, sources, nextId, pcObs, obsLoc, pcUI, uiLoc>>
    /\ UNCHANGED <<calls, nMods, delivered, sinceLast, gapOK, staleRemove>>
    /\ UNCHANGED <<timerOps, rejected>>
    /\ UNCHANGED <<saverVars, resVars>>

\* FileWatcher.stop_watching()
StopWatching ==
    /\ UiFree
    /\ observer' = stop_watching(observer)
    /\ lastOp' = OpRec("stop_watching", <<>>, "none", "none", "none", FALSE,
                                FALSE, observer')
    /\ nOps' = nOps + 1 /\ modsNow' = FALSE
    /\ UNCHANGED <<handler, queue, timeout, sources, nextId, pcObs, obsLoc, pcUI, uiLoc>>
    /\ UNCHANGED <<calls, nMods, delivered, sinceLast, gapOK, staleRemove>>
    /\ UNCHANGED <<timerOps, rejected>>
    /\ UNCHANGED <<saverVars, resVars>>

\* FileWatcher.stop_daemon(wait), up to its join loop
stop_daemon(o) ==
    LET o1 == unschedule_all(o) IN IF is_alive(o1) THEN stop(o1) ELSE o1

\* FileWatcher.stop_daemon(wait): `while wait and cls.observer.is_alive()`
MustJoin(wait, o) == wait /\ is_alive(o)

StopDaemon(wait) ==
    /\ UiFree
    /\ observer' = stop_daemon(observer)
    /\ IF MustJoin(wait, observer')
       THEN /\ pcUI' = "join"
            /\ uiLoc' = [NoUiLoc EXCEPT !.wait = wait]
            /\ UNCHANGED <<lastOp, nOps, modsNow>>
       ELSE /\ lastOp' = OpRec("stop_daemon", <<>>, "none", "none", "none",
                                        FALSE, wait, observer')
            /\ nOps' = nOps + 1 /\ modsNow' = FALSE
            /\ UNCHANGED <<pcUI, uiLoc>>
    /\ UNCHANGED <<handler, queue, timeout, sources, nextId, pcObs, obsLoc>>
    /\ UNCHANGED <<calls, nMods, delivered, sinceLast, gapOK, staleRemove>>
    /\ UNCHANGED <<timerOps, rejected>>
    /\ UNCHANGED <<saverVars, resVars>>

\* FileWatcher.stop_daemon(wait = True): observer.join() returns and the loop ends
JoinReturns ==
    /\ pcUI = "join"
    /\ ~is_alive(observer)
    /\ pcUI' = "idle"
    /\ uiLoc' = NoUiLoc
    /\ lastOp' = OpRec("stop_daemon", <<>>, "none", "none", "none", FALSE,
                       uiLoc.wait, observer)
    /\ nOps' = nOps + 1 /\ modsNow' = FALSE
    /\ UNCHANGED <<observer, handler, queue, timeout, sources, nextId, pcObs, obsLoc>>
    /\ UNCHANGED <<calls, nMods, delivered, sinceLast, gapOK, staleRemove>>
    /\ UNCHANGED <<timerOps, rejected>>
    /\ UNCHANGED <<saverVars, resVars>>

\* a file (or its directory) is modified on disk: each running emitter watching its
\* directory queues an event
Modify(src) ==
    /\ nOps + nMods < MaxInputs
    /\ nMods' = nMods + 1
    /\ LET ds == {d \in observer.emitters : src = d \/ dirname(src) = d}
       IN queue' = IF ds = {} THEN queue
                   ELSE Append(queue, [watch |-> CHOOSE d \in ds : TRUE, src |-> src,
                                       gen |-> nOps])
    /\ modsNow' = (modsNow \/ src = lastOp.prev)
    /\ UNCHANGED <<observer, handler, timeout, sources, nextId, pcObs, obsLoc, pcUI,
                   uiLoc>>
    /\ UNCHANGED <<lastOp, nOps, calls, delivered, sinceLast, gapOK, staleRemove>>
    /\ UNCHANGED <<timerOps, rejected>>
    /\ UNCHANGED <<saverVars, resVars>>

\* mutant: a handler without a filter
MatchesAnyEvent(evt) == handler.set

\* mutant: a filter on the directory instead of the exact path
MatchesDirectory(evt) == handler.set /\ dirname(evt.src) = dirname(handler.path)

\* monitor.on_modified: `... if evt.src_path == path else None`
Matches(evt) == handler.set /\ evt.src = handler.path

\* the observer thread dispatches the next event to the handlers of its watch; a
\* matching event enters enqueue and reads cls.timeout (`if cls.timeout`)
ObsDispatch ==
    /\ pcObs = "idle"
    /\ queue # <<>>
    /\ observer.thread \in {"running", "stopping"}
    /\ LET evt == Head(queue) IN
       /\ queue' = Tail(queue)
       /\ observer' = [observer EXCEPT !.thread = IF @ = "stopping" THEN "exiting" ELSE @]
       /\ IF evt.watch \in observer.handlers /\ Matches(evt)
          THEN /\ obsLoc' = [cb |-> handler.cb, args |-> handler.args, read |-> timeout,
                             new |-> 0, src |-> evt.src, gen |-> evt.gen]
               /\ pcObs' = IF timeout # 0 THEN "enq_remove" ELSE "enq_add"
               /\ delivered' = delivered + 1
               /\ gapOK' = (gapOK /\ (delivered = 0 \/ sinceLast < DELAY))
               /\ sinceLast' = 0
               /\ UNCHANGED rejected
          ELSE /\ rejected' = IF evt.watch \in observer.handlers /\ handler.set
                              THEN rejected \cup {[src |-> evt.src, path |-> handler.path]}
                              ELSE rejected
               /\ UNCHANGED <<obsLoc, pcObs, delivered, gapOK, sinceLast>>
    /\ UNCHANGED <<handler, timeout, sources, nextId, pcUI, uiLoc>>
    /\ UNCHANGED <<lastOp, nOps, calls, nMods, staleRemove, modsNow>>
    /\ UNCHANGED timerOps
    /\ UNCHANGED <<saverVars, resVars>>

\* enqueue: GLib.Source.remove(cls.timeout)
ObsRemove ==
    /\ pcObs = "enq_remove"
    /\ sources' = {s \in sources : s.id # obsLoc.read}
    /\ staleRemove' = (staleRemove \/ ~\E s \in sources : s.id = obsLoc.read)
    /\ pcObs' = "enq_add"
    /\ UNCHANGED <<observer, handler, queue, timeout, nextId, obsLoc, pcUI, uiLoc>>
    /\ UNCHANGED <<lastOp, nOps, calls, nMods, delivered, sinceLast, gapOK, modsNow>>
    /\ timerOps' = timerOps \cup {[thread |-> EnqueueThread, op |-> "remove"]}
    /\ UNCHANGED rejected
    /\ UNCHANGED <<saverVars, resVars>>

\* enqueue: GLib.timeout_add(200, cls.call, callback, *args)
ObsAdd ==
    /\ pcObs = "enq_add"
    /\ sources' = sources \cup {[id |-> nextId, cb |-> obsLoc.cb, args |-> obsLoc.args,
                                 rem |-> DELAY, src |-> obsLoc.src, gen |-> obsLoc.gen]}
    /\ nextId' = nextId + 1
    /\ obsLoc' = [obsLoc EXCEPT !.new = nextId]
    /\ pcObs' = "enq_write"
    /\ UNCHANGED <<observer, handler, queue, timeout, pcUI, uiLoc>>
    /\ UNCHANGED <<lastOp, nOps, calls, nMods, delivered, sinceLast, gapOK, staleRemove, modsNow>>
    /\ timerOps' = timerOps \cup {[thread |-> EnqueueThread, op |-> "add"]}
    /\ UNCHANGED rejected
    /\ UNCHANGED <<saverVars, resVars>>

\* enqueue: cls.timeout = <the new id>
ObsWrite ==
    /\ pcObs = "enq_write"
    /\ timeout' = obsLoc.new
    /\ obsLoc' = NoObsLoc
    /\ pcObs' = "idle"
    /\ UNCHANGED <<observer, handler, queue, sources, nextId, pcUI, uiLoc>>
    /\ UNCHANGED <<lastOp, nOps, calls, nMods, delivered, sinceLast, gapOK, staleRemove, modsNow>>
    /\ timerOps' = timerOps \cup {[thread |-> EnqueueThread, op |-> "write"]}
    /\ UNCHANGED rejected
    /\ UNCHANGED <<saverVars, resVars>>

\* the observer thread, told to stop, leaves its loop and ends
ObsExit ==
    /\ pcObs = "idle"
    /\ observer.thread \in {"stopping", "exiting"}
    /\ observer' = [observer EXCEPT !.thread = "dead"]
    /\ UNCHANGED <<handler, queue, timeout, sources, nextId, pcObs, obsLoc, pcUI, uiLoc>>
    /\ UNCHANGED watchHist
    /\ UNCHANGED <<saverVars, resVars>>

\* the main loop dispatches an expired timeout source: call starts and reads
\* cls.timeout (`if cls.timeout`)
TimerFire(s) ==
    /\ pcUI = "idle"
    /\ s \in sources
    /\ s.rem = 0
    /\ sources' = sources \ {s}
    /\ uiLoc' = [cb |-> s.cb, args |-> s.args, src |-> s.src, gen |-> s.gen,
                  wait |-> FALSE, id |-> s.id]
    /\ pcUI' = IF timeout # 0 THEN "call_write" ELSE "call_cb"
    /\ UNCHANGED <<observer, handler, queue, timeout, nextId, pcObs, obsLoc>>
    /\ UNCHANGED watchHist
    /\ UNCHANGED <<saverVars, resVars>>

\* call: cls.timeout = 0
CallWrite ==
    /\ pcUI = "call_write"
    /\ timeout' = 0
    /\ pcUI' = "call_cb"
    /\ timerOps' = timerOps \cup {[thread |-> CallThread, op |-> "write"]}
    /\ UNCHANGED <<observer, handler, queue, sources, nextId, pcObs, obsLoc, uiLoc>>
    /\ UNCHANGED <<lastOp, nOps, calls, nMods, delivered, sinceLast, gapOK, staleRemove,
                   modsNow, rejected>>
    /\ UNCHANGED <<saverVars, resVars>>

\* call: callback(*args, **kwargs)
CallCb ==
    /\ pcUI = "call_cb"
    /\ calls' = Append(calls, [cb |-> uiLoc.cb, args |-> uiLoc.args, src |-> uiLoc.src,
                               gen |-> uiLoc.gen, at |-> nOps,
                               watched |-> handler.path, thread |-> CallThread,
                               timer |-> uiLoc.id])
    /\ uiLoc' = NoUiLoc
    /\ pcUI' = "idle"
    /\ UNCHANGED <<observer, handler, queue, timeout, sources, nextId, pcObs, obsLoc>>
    /\ UNCHANGED <<lastOp, nOps, nMods, delivered, sinceLast, gapOK, staleRemove, modsNow>>
    /\ UNCHANGED <<timerOps, rejected>>
    /\ UNCHANGED <<saverVars, resVars>>

\* TickMs milliseconds pass
Tick ==
    /\ \/ \E s \in sources : s.rem > 0
       \/ (sinceLast < DELAY /\ delivered > 0)
    /\ sources' = {[s EXCEPT !.rem = Max(0, @ - TickMs)] : s \in sources}
    /\ sinceLast' = IF delivered > 0 THEN Min(DELAY, sinceLast + TickMs) ELSE sinceLast
    /\ UNCHANGED <<observer, handler, queue, timeout, nextId, pcObs, obsLoc, pcUI, uiLoc>>
    /\ UNCHANGED <<lastOp, nOps, calls, nMods, delivered, gapOK, staleRemove, modsNow>>
    /\ UNCHANGED <<timerOps, rejected>>
    /\ UNCHANGED <<saverVars, resVars>>

(***************************************************************************)
(* set_screensaver.                                                        *)
(***************************************************************************)
Platforms == {"mac", "posix", "windows", "other"}

\* set_screensaver.dpms_was_enabled: None, a bool, or the Popen of caffeinate
FlagNone == [kind |-> "none", on |-> FALSE, pid |-> 0]
FlagBool(b) == [kind |-> "bool", on |-> b, pid |-> 0]
FlagPopen(pid) == [kind |-> "popen", on |-> FALSE, pid |-> pid]

\* the truth value Python gives the flag
Truthy(flag) == flag.kind = "popen" \/ (flag.kind = "bool" /\ flag.on)

\* the OS: DPMS of the X server, the xdg-screensaver suspension of the window, the
\* registry value ScreenSaveActive with its type and its access rights, and the
\* caffeinate processes
OsStates(pf) ==
    [dpms : IF pf = "posix" THEN {"Enabled", "Disabled"} ELSE {"Disabled"},
     xdg : {FALSE},
     reg : IF pf = "windows" THEN {"1", "0"} ELSE {"0"},
     regType : IF pf = "windows" THEN {"REG_SZ", "REG_DWORD"} ELSE {"REG_SZ"},
     regAccess : IF pf = "windows" THEN BOOLEAN ELSE {TRUE},
     hasCaffeinate : IF pf = "mac" THEN BOOLEAN ELSE {TRUE},
     running : {{}}, exit0 : {{}}, exitN : {{}}, nextPid : {1}]

InitSaver ==
    /\ platform \in Platforms
    /\ dpms_was_enabled = FlagNone
    /\ os \in OsStates(platform)
    /\ sslog = <<>>

\* the outcome of one branch: the OS and the flag after it, the exception it
\* propagates, the OS-mutating calls it issued, the value it read and the value it
\* wrote, and whether a command it ran returned a non-zero status
Outcome(o, flag, exc, cmds, read, wrote, failed) ==
    [os |-> o, flag |-> flag, exc |-> exc, cmds |-> cmds, read |-> read,
     wrote |-> wrote, failed |-> failed]

\* Popen.poll() is truthy: the process has ended with a non-zero return code
PollTruthy(flag, o) == flag.pid \in o.exitN

\* the macOS branch
MacBranch(must_disable, flag, o) ==
    IF must_disable
    THEN IF flag.kind = "none" \/ PollTruthy(flag, o)
         THEN IF ~o.hasCaffeinate
              THEN Outcome(o, flag, "OSError", {}, "none", "none", FALSE)
              ELSE Outcome([o EXCEPT !.running = @ \cup {o.nextPid},
                                     !.nextPid = @ + 1],
                           FlagPopen(o.nextPid), "none", {"popen"}, "none", "none", FALSE)
         ELSE Outcome(o, flag, "none", {}, "none", "none", FALSE)
    ELSE IF Truthy(flag) /\ ~PollTruthy(flag, o)
         THEN Outcome([o EXCEPT !.running = @ \ {flag.pid},
                                !.exitN = IF flag.pid \in o.running
                                          THEN @ \cup {flag.pid} ELSE @],
                      FlagNone, "none",
                      IF flag.pid \in o.running THEN {"kill"} ELSE {},
                      "none", "none", FALSE)
         ELSE Outcome(o, flag, "none", {}, "none", "none", FALSE)

\* os.system("xdg-screensaver suspend|resume <xid>") with status 0 or not
XdgScreensaver(must_disable, o, ok) == IF ok THEN [o EXCEPT !.xdg = must_disable] ELSE o

\* the DPMS status parsed from `xset q`: "Disabled" unless a line "DPMS is ..." is found
DpmsStatus(o, found) == IF found THEN o.dpms ELSE "Disabled"

\* os.system("xset -dpms") with status 0 or not
XsetMinusDpms(o, ok) == IF ok THEN [o EXCEPT !.dpms = "Disabled"] ELSE o

\* mutant: the restoring command switches DPMS off
XsetPlusDpmsOff(o, ok) == IF ok THEN [o EXCEPT !.dpms = "Disabled"] ELSE o

\* os.system("xset +dpms") with status 0 or not
XsetPlusDpms(o, ok) == IF ok THEN [o EXCEPT !.dpms = "Enabled"] ELSE o

\* mutant: the enable branch restores whatever the flag holds
MustRestoreAlways(must_disable, flag) == ~must_disable

\* `elif set_screensaver.dpms_was_enabled:`
MustRestore(must_disable, flag) == ~must_disable /\ Truthy(flag)

\* the POSIX branch; xdgOK, found, xsetOK are the outcomes of its commands
PosixBranch(must_disable, flag, o, xdgOK, found, xsetOK) ==
    LET o1 == XdgScreensaver(must_disable, o, xdgOK)
        cmd1 == {IF must_disable THEN "xdg-screensaver suspend"
                 ELSE "xdg-screensaver resume"}
    IN IF must_disable
       THEN LET dpms_status == DpmsStatus(o1, found)
            IN IF dpms_status = "Enabled"
               THEN Outcome(XsetMinusDpms(o1, xsetOK), FlagBool(TRUE), "none",
                            cmd1 \cup {"xset -dpms"}, dpms_status, "Disabled",
                            ~xdgOK \/ ~xsetOK)
               ELSE Outcome(o1, FlagBool(FALSE), "none", cmd1, dpms_status, "none",
                            ~xdgOK)
       ELSE IF MustRestore(must_disable, flag)
            THEN Outcome(XsetPlusDpms(o1, xsetOK), flag, "none",
                         cmd1 \cup {"xset +dpms"}, "none", "Enabled",
                         ~xdgOK \/ ~xsetOK)
            ELSE Outcome(o1, flag, "none", cmd1, "none", "none", ~xdgOK)

\* winreg.SetValueEx(key, "ScreenSaveActive", 0, winreg.REG_SZ, value)
SetValueEx(o, value) == [o EXCEPT !.reg = value, !.regType = "REG_SZ"]

\* `except (OSError, PermissionError):`
Caught(exc) == exc \in {"OSError", "PermissionError"}

\* the Windows branch
WindowsBranch(must_disable, flag, o) ==
    LET raised == IF ~o.regAccess THEN "PermissionError"
                  ELSE IF must_disable /\ o.regType # "REG_SZ" THEN "AssertionError"
                  ELSE "none"
        exc == IF Caught(raised) THEN "none" ELSE raised
    IN IF raised # "none"
       THEN Outcome(o, flag, exc, {}, IF o.regAccess /\ must_disable THEN o.reg ELSE "none",
                    "none", FALSE)
       ELSE IF must_disable
            THEN IF o.reg = "1"
                 THEN Outcome(SetValueEx(o, "0"), FlagBool(TRUE), "none",
                              {"registry write"}, o.reg, "0", FALSE)
                 ELSE Outcome(o, FlagBool(FALSE), "none", {}, o.reg, "none", FALSE)
            ELSE IF MustRestore(must_disable, flag)
                 THEN Outcome(SetValueEx(o, "1"), flag, "none", {"registry write"},
                              "none", "1", FALSE)
                 ELSE Outcome(o, flag, "none", {}, "none", "none", FALSE)

\* the branch of an unsupported OS: a warning is logged
OtherBranch(must_disable, flag, o) ==
    Outcome(o, flag, "none", {}, "none", "none", FALSE)

\* set_screensaver(must_disable, window)
SetScreensaver(must_disable) ==
    /\ Len(sslog) < MaxCalls
    /\ \E xdgOK \in BOOLEAN, found \in BOOLEAN, xsetOK \in BOOLEAN :
         LET r == IF platform = "mac" THEN MacBranch(must_disable, dpms_was_enabled, os)
                  ELSE IF platform = "posix"
                       THEN PosixBranch(must_disable, dpms_was_enabled, os,
                                        xdgOK, found, xsetOK)
                  ELSE IF platform = "windows"
                       THEN WindowsBranch(must_disable, dpms_was_enabled, os)
                  ELSE OtherBranch(must_disable, dpms_was_enabled, os)
         IN /\ os' = r.os
            /\ dpms_was_enabled' = r.flag
            /\ sslog' = Append(sslog, [dis |-> must_disable, exc |-> r.exc,
                                       cmds |-> r.cmds, read |-> r.read,
                                       wrote |-> r.wrote, failed |-> r.failed,
                                       osBefore |-> os, osAfter |-> r.os,
                                       flagBefore |-> dpms_was_enabled,
                                       flagAfter |-> r.flag])
    /\ UNCHANGED platform
    /\ UNCHANGED <<watchVars, watchHist, resVars>>

\* a caffeinate process ends by itself, with return code 0 or not
ProcExit(pid, zero) ==
    /\ pid \in os.running
    /\ os' = [os EXCEPT !.running = @ \ {pid},
                        !.exit0 = IF zero THEN @ \cup {pid} ELSE @,
                        !.exitN = IF zero THEN @ ELSE @ \cup {pid}]
    /\ UNCHANGED <<platform, dpms_was_enabled, sslog>>
    /\ UNCHANGED <<watchVars, watchHist, resVars>>

InitSaverIdle ==
    /\ platform = "other"
    /\ dpms_was_enabled = FlagNone
    /\ os \in OsStates("other")
    /\ sslog = <<>>

(***************************************************************************)
(* The resource resolver.                                                  *)
(***************************************************************************)
\* sys.executable of a frozen application
Executables == {<<Sep, "opt", Sep, "app", Sep, "pympress">>,
                <<Sep, "pympress">>,
                <<Sep, "opt", Sep, "pympress">>}
\* the location of the installed pympress distribution
Locations == {<<Sep, "usr", Sep, "lib">>, <<Sep, "site">>}
\* resource names: relative ones (valid), and an absolute one
ResourceNames == {<<"pympress">>, <<"sub", Sep, "icon">>, <<"a", ".", "b">>,
                  <<Sep, "etc", Sep, "x">>}

\* pkg_resources.resource_filename(req, resource_name): the provider joins the
\* location of the distribution and the parts of the name
resource_filename(location, resource_name) ==
    IF resource_name # <<>> THEN pathjoin(location, slashsplit(resource_name))
    ELSE location

\* mutant: the frozen branch joins to the executable, not to its directory
get_resource_path_of_exe(inp, path_parts) ==
    IF inp.frozen
    THEN pathjoin(inp.exe, path_parts)
    ELSE resource_filename(inp.location, slashjoin(<<<<"pympress">>>> \o path_parts))

\* __get_resource_path(*path_parts)
get_resource_path(inp, path_parts) ==
    IF inp.frozen
    THEN pathjoin(dirname(inp.exe), path_parts)
    ELSE resource_filename(inp.location, slashjoin(<<<<"pympress">>>> \o path_parts))

\* get_ui_resource_file(name)
get_ui_resource_file(inp, name) ==
    get_resource_path(inp, <<<<"share">>, <<"xml">>, name \o <<".glade">>>>)

\* get_icon_pixbuf(name): the path it loads
get_icon_path(inp, name) ==
    get_resource_path(inp, <<<<"share">>, <<"pixmaps">>, name>>)

\* get_style_provider(): the path it loads
get_css_path(inp) ==
    IF inp.mac
    THEN get_resource_path(inp, <<<<"share">>, <<"css">>, <<"macos", ".css">>>>)
    ELSE get_resource_path(inp, <<<<"share">>, <<"css">>, <<"default", ".css">>>>)

InitRes ==
    /\ resIn \in [frozen : BOOLEAN, exe : Executables, location : Locations,
                  name : ResourceNames, mac : BOOLEAN]
    /\ resOut = [kind |-> "none", path |-> <<>>]

InitResIdle ==
    /\ resIn = [frozen |-> FALSE, exe |-> <<Sep, "pympress">>,
                location |-> <<Sep, "site">>, name |-> <<"pympress">>, mac |-> FALSE]
    /\ resOut = [kind |-> "none", path |-> <<>>]

\* a call of get_ui_resource_file(name)
ResolveUi ==
    /\ resOut' = [kind |-> "ui", path |-> get_ui_resource_file(resIn, resIn.name)]
    /\ UNCHANGED resIn
    /\ UNCHANGED <<watchVars, watchHist, saverVars>>

\* a call of get_icon_pixbuf(name)
ResolveIcon ==
    /\ resOut' = [kind |-> "icon", path |-> get_icon_path(resIn, resIn.name)]
    /\ UNCHANGED resIn
    /\ UNCHANGED <<watchVars, watchHist, saverVars>>

\* a call of get_style_provider()
ResolveCss ==
    /\ resOut' = [kind |-> "css", path |-> get_css_path(resIn)]
    /\ UNCHANGED resIn
    /\ UNCHANGED <<watchVars, watchHist, saverVars>>

Init == InitWatch /\ InitSaverIdle /\ InitResIdle

Next ==
    \/ \E w \in WatchInputs : WatchFile(w[1], w[2], w[3])
    \/ StopWatching
    \/ \E wait \in BOOLEAN : StopDaemon(wait)
    \/ JoinReturns
    \/ \E src \in EventSources : Modify(src)
    \/ ObsDispatch
    \/ ObsRemove
    \/ ObsAdd
    \/ ObsWrite
    \/ ObsExit
    \/ \E s \in sources : TimerFire(s)
    \/ CallWrite
    \/ CallCb
    \/ Tick

Spec == Init /\ [][Next]_vars

NextSaver ==
    \/ \E must_disable \in BOOLEAN : SetScreensaver(must_disable)
    \/ \E pid \in os.running, zero \in BOOLEAN : ProcExit(pid, zero)

InitOfSaver == InitWatch /\ InitSaver /\ InitResIdle

SpecSaver == InitOfSaver /\ [][NextSaver]_vars

NextRes ==
    \/ ResolveUi
    \/ ResolveIcon
    \/ ResolveCss

InitOfRes == InitWatch /\ InitSaverIdle /\ InitRes

SpecRes == InitOfRes /\ [][NextRes]_vars

\* the observer thread runs, and a joined thread lets join return
SpecFair ==
    /\ Init
    /\ [][Next]_vars
    /\ WF_vars(ObsExit)
    /\ WF_vars(ObsRemove)
    /\ WF_vars(ObsAdd)
    /\ WF_vars(ObsWrite)
    /\ WF_vars(JoinReturns)

(***************************************************************************)
(* The claims about the file watcher.                                      *)
(***************************************************************************)
\* nothing is in flight: no event queued, no enqueue or call running, no timer pending
Quiescent == pcObs = "idle" /\ pcUI = "idle" /\ queue = <<>> /\ sources = {}

\* the modifications that passed the handler's filter: inside enqueue, armed as a
\* timer, inside call, or already called back
PastFilter ==
    {[src |-> obsLoc.src, gen |-> obsLoc.gen] : x \in {y \in {1} : pcObs # "idle"}}
    \cup {[src |-> s.src, gen |-> s.gen] : s \in sources}
    \cup {[src |-> uiLoc.src, gen |-> uiLoc.gen] :
             x \in {y \in {1} : pcUI \in {"call_write", "call_cb"}}}
    \cup {[src |-> calls[i].src, gen |-> calls[i].gen] : i \in 1..Len(calls)}

\* the modifications that led to an event: still queued, or past the filter
Noticed == {[src |-> queue[i].src, gen |-> queue[i].gen] : i \in 1..Len(queue)}
           \cup PastFilter

\* C1: debounce. After a single watch_file(P, cb, args), once N >= 1 events for P
\* were delivered less than DELAY ms apart and nothing is in flight any more, cb was
\* invoked exactly once, with the bound arguments.
C1_DebouncedOnce ==
    (/\ nOps = 1 /\ lastOp.op = "watch_file"
     /\ delivered >= 1 /\ gapOK /\ Quiescent)
    => (/\ Len(calls) = 1
        /\ calls[1].cb = lastOp.cb
        /\ calls[1].args = lastOp.args)

\* C2: while stop_watching is the last operation that returned, no emitter runs and
\* no modification made since it returned has led to an event, a timer or a
\* callback invocation.
C2_NoCallbackAfterStop ==
    lastOp.op = "stop_watching"
    => (/\ observer.emitters = {}
        /\ \A m \in Noticed : m.gen < nOps)

\* C2 witness: the file watched before was modified after stop_watching returned,
\* and nothing is in flight.
C2_Witness ==
    /\ lastOp.op = "stop_watching"
    /\ lastOp.before # {}
    /\ modsNow
    /\ Quiescent

C6_FailedScheduleIsSoft ==
    (lastOp.op = "watch_file" /\ lastOp.oserr)
    => (/\ lastOp.exc = "none"
        /\ lastOp.watches = {}
        /\ observer.watches = {}
        /\ observer.emitters = {}
        /\ \A m \in Noticed : m.gen < nOps)

\* C6 witness: a watch was scheduled, watch_file on a missing directory returned, and
\* files were modified after that.
C6_Witness ==
    /\ lastOp.op = "watch_file" /\ lastOp.oserr
    /\ lastOp.before # {}
    /\ modsNow
    /\ Quiescent

\* C8: every watch_file returns normally and leaves the observer thread running.
C8_WatchFileStartsThread ==
    lastOp.op = "watch_file"
    => (lastOp.exc = "none" /\ lastOp.alive)

\* C9: stop_daemon(wait = True) that waits in join eventually returns; when it has
\* returned the observer thread is not alive and nothing is scheduled; and only
\* wait = True waits in join.
C9_StopDaemonReturns ==
    /\ (pcUI = "join") ~> (pcUI = "idle")
    /\ []((lastOp.op = "stop_daemon" /\ lastOp.wait)
          => (~lastOp.alive /\ lastOp.watches = {} /\ observer.watches = {}))
    /\ [](pcUI = "join" => uiLoc.wait)

\* C9 witness: stop_daemon(wait = True), called with a watch scheduled on a running
\* observer, has returned.
C9_Witness ==
    /\ lastOp.op = "stop_daemon" /\ lastOp.wait
    /\ lastOp.before # {}
    /\ observer.thread = "dead"

\* the last operation that returned is a cancellation: stop_watching, or watch_file
\* switching from a watched path to another one
IsStop == lastOp.op = "stop_watching"
IsSwitch ==
    /\ lastOp.op = "watch_file" /\ lastOp.exc = "none"
    /\ lastOp.prev # <<>> /\ lastOp.prev # lastOp.path

\* C11: cancellation. Once stop_watching has returned no timer is pending and
\* FileWatcher.timeout is 0; once watch_file has switched to another target no
\* timer armed for the old target is pending.
C11_PendingTimerCancelled ==
    /\ IsStop => (timeout = 0 /\ sources = {})
    /\ IsSwitch => \A s \in sources : s.src # lastOp.prev

\* C12: at most one debounce timer is pending in every reachable state.
C12_OnePendingTimer == Cardinality(sources) <= 1

\* the invocations, made since the last operation returned, of the callback bound to
\* the path watched before it
StaleCalls == {i \in 1..Len(calls) : calls[i].at = nOps /\ calls[i].src = lastOp.prev}

\* C13: after a cancellation has returned, the callback bound to the old target is
\* invoked at most once more.
C13_AtMostOneStaleCallback ==
    (IsStop \/ IsSwitch) => Cardinality(StaleCalls) <= 1

\* C14: every write of FileWatcher.timeout and every arm or cancel of the debounce
\* timer is made by the UI thread, and the observer thread is never inside enqueue
\* while the UI thread is inside call.
C14_TimerStateOnUiThread ==
    /\ \A a \in timerOps : a.thread = "ui"
    /\ ~(pcObs # "idle" /\ pcUI \in {"call_write", "call_cb"})

\* C15: every invocation of the callback is made by the UI thread, from the expiry
\* of a timer that enqueue armed, one invocation per timer; handling an event on the
\* observer thread invokes nothing by itself.
C15_CallbackOnUiThread ==
    /\ \A i \in 1..Len(calls) :
          /\ calls[i].thread = "ui"
          /\ calls[i].timer \in 1..(nextId - 1)
          /\ \A s \in sources : s.id # calls[i].timer
          /\ \A j \in 1..Len(calls) : i # j => calls[i].timer # calls[j].timer
    /\ Len(calls) <= delivered

\* C15 witness: two events were handled on the observer thread and their timers have
\* expired: the callback was invoked twice.
C15_Witness ==
    /\ Len(calls) = 2 /\ delivered >= 2
    /\ Quiescent

\* the paths whose modification would now reach enqueue: an emitter watches their
\* directory, the handler is registered for it, and they pass the handler's filter
WatchTargets ==
    {src \in EventSources \cup Paths :
        /\ \E d \in observer.emitters \cap observer.handlers :
              src = d \/ dirname(src) = d
        /\ Matches([src |-> src])}

\* C16: the observer has at most one watch, one emitter and one registered handler,
\* all for the directory of the path the handler filters on; at most one path can
\* reach a callback; and the handler changes only in a watch_file call, to the path
\* of that call: after calls of watch_file and stop_watching only, it is the path of
\* the latest watch_file.
C16_OneWatchTarget ==
    /\ [](/\ Cardinality(observer.watches) <= 1
          /\ Cardinality(observer.emitters) <= 1
          /\ Cardinality(observer.handlers) <= 1
          /\ observer.watches \subseteq observer.emitters
          /\ handler.set => observer.emitters \subseteq {dirname(handler.path)}
          /\ Cardinality(WatchTargets) <= 1
          /\ (lastOp.op = "watch_file" /\ observer.thread \in {"new", "running"})
             => (/\ lastOp.exc = "none"
                 /\ handler.path = lastOp.path
                 /\ WatchTargets \subseteq {lastOp.path}))
    /\ [][handler' # handler
          => (/\ nOps' = nOps + 1
              /\ lastOp'.op = "watch_file"
              /\ handler'.path = lastOp'.path)]_vars

\* C16 witness: after three calls, the last one watch_file(P2) made while P1 of the
\* same directory was watched, P2 is the one path whose modification reaches a
\* callback.
C16_Witness ==
    /\ nOps = 3 /\ IsSwitch
    /\ lastOp.prev = P1 /\ lastOp.path = P2 /\ handler.path = P2
    /\ lastOp.before = {dirname(P1)}
    /\ observer.watches = {dirname(P2)}
    /\ WatchTargets = {P2}

\* the events that passed the handler's filter, with the callback and the arguments
\* they were bound to: inside enqueue, armed as a timer, inside call, or called back
PastFilterBound ==
    {<<obsLoc.src, obsLoc.cb, obsLoc.args>> : x \in {y \in {1} : pcObs # "idle"}}
    \cup {<<s.src, s.cb, s.args>> : s \in sources}
    \cup {<<uiLoc.src, uiLoc.cb, uiLoc.args>> :
             x \in {y \in {1} : pcUI \in {"call_write", "call_cb"}}}
    \cup {<<calls[i].src, calls[i].cb, calls[i].args>> : i \in 1..Len(calls)}

\* C17: an event enters enqueue only when its source path is exactly the watched
\* path, and every timer armed and every callback invoked is for an event on a path
\* given to watch_file, with the callback and arguments given with that path; what
\* the handler filtered out differs from the watched path.
C17_ExactPathOnly ==
    /\ pcObs # "idle" => (/\ obsLoc.src = handler.path
                          /\ obsLoc.cb = handler.cb
                          /\ obsLoc.args = handler.args)
    /\ PastFilterBound \subseteq WatchInputs
    /\ \A r \in rejected : r.src # r.path

\* C17 witness: while P1 was watched, the handler was given an event for another
\* file of its directory and an event for the directory itself; no timer was armed
\* and no callback invoked.
C17_Witness ==
    /\ nOps = 1 /\ lastOp.op = "watch_file" /\ lastOp.path = P1
    /\ rejected = {[src |-> P2, path |-> P1], [src |-> dirname(P1), path |-> P1]}
    /\ delivered = 0 /\ calls = <<>>
    /\ Quiescent

\* neither thread is inside enqueue or call
BetweenTimerOps == pcObs = "idle" /\ pcUI \in {"idle", "join"}

\* C20: whenever neither thread is inside enqueue or call, FileWatcher.timeout is
\* non-zero exactly when it is the id of a pending timeout source, and it is 0 only
\* when no timer is pending; and enqueue never removes an id that is not pending.
C20_HandleConsistent ==
    /\ BetweenTimerOps
       => (/\ timeout # 0 <=> \E s \in sources : s.id = timeout
           /\ timeout = 0 => sources = {})
    /\ ~staleRemove

(***************************************************************************)
(* The claims about set_screensaver.                                       *)
(***************************************************************************)
\* call i of set_screensaver is an enable
IsEnable(i) == i \in 1..Len(sslog) /\ ~sslog[i].dis

\* what of the OS the screensaver/DPMS configuration is: DPMS of the X server and
\* the registry value ScreenSaveActive
DpmsConfig(o) == [dpms |-> o.dpms, reg |-> o.reg]

\* C4 as stated: an enable with no disable since process start or since the last
\* enable issues no OS-mutating call and leaves the flag unchanged.
C4_EnableWhenActiveIsNoOp ==
    \A i \in 1..Len(sslog) :
       (IsEnable(i) /\ (i = 1 \/ IsEnable(i - 1)))
       => (sslog[i].cmds = {} /\ sslog[i].flagAfter = sslog[i].flagBefore)

\* C4 amended: an enable with no disable since process start leaves the flag and the
\* OS unchanged and issues no xset command, no registry write and no process kill;
\* the only command it issues is, on POSIX, xdg-screensaver resume.
C4_FirstEnableRestoresNothing ==
    \A i \in 1..Len(sslog) :
       (\A j \in 1..i : IsEnable(j))
       => (/\ sslog[i].flagAfter = sslog[i].flagBefore
           /\ sslog[i].osAfter = sslog[i].osBefore
           /\ sslog[i].exc = "none"
           /\ sslog[i].cmds = IF platform = "posix" THEN {"xdg-screensaver resume"}
                              ELSE {})

\* C4 witness: two enables from process start on POSIX with DPMS enabled.
C4_Witness ==
    /\ platform = "posix" /\ os.dpms = "Enabled"
    /\ Len(sslog) = 2 /\ IsEnable(1) /\ IsEnable(2)

\* C5: a disable followed by an enable whose OS calls succeed leaves the DPMS /
\* ScreenSaveActive configuration as it was before the disable, and what the enable
\* writes is what the disable read.
C5_RoundTrip ==
    \A i \in 1..(Len(sslog) - 1) :
       (/\ platform \in {"posix", "windows"}
        /\ sslog[i].dis /\ IsEnable(i + 1) /\ ~sslog[i + 1].failed)
       => (/\ DpmsConfig(sslog[i + 1].osAfter) = DpmsConfig(sslog[i].osBefore)
           /\ sslog[i + 1].wrote # "none" => sslog[i + 1].wrote = sslog[i].read)

\* C5 witness: on POSIX a disable read "Enabled" and switched DPMS off, and the
\* enable after it switched it on again.
C5_Witness ==
    /\ platform = "posix" /\ Len(sslog) = 2
    /\ sslog[1].dis /\ sslog[1].read = "Enabled" /\ sslog[1].osAfter.dpms = "Disabled"
    /\ IsEnable(2) /\ sslog[2].wrote = "Enabled" /\ os.dpms = "Enabled"

\* C7: no call of set_screensaver propagates an exception.
C7_NeverRaises ==
    \A i \in 1..Len(sslog) : sslog[i].exc = "none"

\* calls i..j of set_screensaver are disables that returned with every command
\* successful, and call i is the first disable since process start or since an enable
IsDisableRun(i, j) ==
    /\ i \in 1..Len(sslog) /\ j \in i..Len(sslog)
    /\ i = 1 \/ IsEnable(i - 1)
    /\ \A k \in i..j : sslog[k].dis /\ ~sslog[k].failed /\ sslog[k].exc = "none"

\* C18: n >= 1 consecutive disables followed by one enable restore the DPMS /
\* ScreenSaveActive configuration read before the first disable, and a disable
\* issued after a disable that recorded an enabled configuration leaves the record
\* as it was.
C18_RecordNotOverwritten ==
    platform \in {"posix", "windows"}
    => \A i \in 1..Len(sslog), j \in 1..Len(sslog) :
          IsDisableRun(i, j)
          => (/\ \A k \in (i + 1)..j :
                    Truthy(sslog[k].flagBefore)
                    => sslog[k].flagAfter = sslog[k].flagBefore
              /\ (IsEnable(j + 1) /\ ~sslog[j + 1].failed)
                 => DpmsConfig(sslog[j + 1].osAfter) = DpmsConfig(sslog[i].osBefore))

\* C19: on macOS at most one caffeinate process started by the module is running;
\* when a disable returns exactly one is running, and when an enable returns none is
\* running and the flag is None.
C19_OneInhibitor ==
    platform = "mac"
    => (/\ Cardinality(os.running) <= 1
        /\ \A i \in 1..Len(sslog) :
              sslog[i].exc = "none"
              => IF sslog[i].dis
                 THEN Cardinality(sslog[i].osAfter.running) = 1
                 ELSE /\ sslog[i].osAfter.running = {}
                      /\ sslog[i].flagAfter = FlagNone)

(***************************************************************************)
(* The claims about the resource resolver.                                 *)
(***************************************************************************)
\* a valid resource name: not empty and relative
ValidName(name) == name # <<>> /\ name[1] # Sep

\* C10: for a valid name the resolved path ends in share/xml/<name>.glade,
\* share/pixmaps/<name> or share/css/<file>.css, and in frozen mode it starts with
\* the directory of the executable.
C10_ResolvedPath ==
    (resOut.kind # "none" /\ ValidName(resIn.name))
    => (/\ resOut.kind = "ui"
           => EndsWith(resOut.path, <<"share", Sep, "xml", Sep>> \o resIn.name
                                    \o <<".glade">>)
        /\ resOut.kind = "icon"
           => EndsWith(resOut.path, <<"share", Sep, "pixmaps", Sep>> \o resIn.name)
        /\ resOut.kind = "css"
           => \E file \in {"macos", "default"} :
                 EndsWith(resOut.path, <<"share", Sep, "css", Sep, file, ".css">>)
        /\ resIn.frozen
           => \E dir \in {<<Sep, "opt", Sep, "app">>, <<Sep>>, <<Sep, "opt">>} :
                 /\ resIn.exe = (IF dir = <<Sep>> THEN dir ELSE dir \o <<Sep>>)
                                \o <<"pympress">>
                 /\ StartsWith(resOut.path,
                               (IF dir = <<Sep>> THEN dir ELSE dir \o <<Sep>>)
                               \o <<"share", Sep>>))

\* C10 witness: a UI file with a name in a subdirectory was resolved in frozen mode.
C10_Witness ==
    /\ resOut.kind = "ui" /\ resIn.frozen
    /\ resIn.name = <<"sub", Sep, "icon">>
    /\ resIn.exe = <<Sep, "opt", Sep, "app", Sep, "pympress">>
    /\ resOut.path = <<Sep, "opt", Sep, "app", Sep, "share", Sep, "xml", Sep,
                       "sub", Sep, "icon", ".glade">>

====
